---------------------------- MODULE Spec2Model ----------------------------
(***************************************************************************)
(* Model of ambulance/dynamic_ai.py: the priority scoring chain            *)
(* (base_medical_priority, spo2_risk, heart_rate_risk, deterioration_risk, *)
(* vital_risk_score, time_to_hospital_risk, calculate_priority,            *)
(* priority_category, traffic_decision) and the simulation loop            *)
(* run_simulation with its random vitals generator.                        *)
(*                                                                         *)
(* Spec        : a caller invokes calculate_priority, priority_category or *)
(*               traffic_decision with arguments drawn from bounded sets   *)
(*               and the chain calculate -> categorize -> decide runs on.  *)
(* SimSpec     : run_simulation, every random draw explored.               *)
(* SimFairSpec : SimSpec with weak fairness of the loop (the loop body has *)
(*               no blocking call other than a one second sleep).          *)
(***************************************************************************)
EXTENDS Integers, Sequences, FiniteSets, TLC

VARIABLES
    entry,           \* the function the caller invoked
    pc,              \* position of the caller / of run_simulation
    emergency_type,  \* argument / local of run_simulation
    hr,              \* heart rate argument / reading of the iteration in progress
    spo2,            \* current SpO2 argument / reading of the iteration in progress
    prev_spo2,       \* previous SpO2 argument / local
    eta,             \* minutes to hospital argument / local
    risks,           \* values returned by the calls made inside calculate_priority
    priority,        \* value returned by calculate_priority (or score given by the caller)
    category,        \* value returned by priority_category (or level given by the caller)
    action,          \* value returned by traffic_decision
    minute           \* loop variable of run_simulation

vars == <<entry, pc, emergency_type, hr, spo2, prev_spo2, eta,
          risks, priority, category, action, minute>>

-----------------------------------------------------------------------------
(* Bounds of the explored argument sets.                                   *)

\* Half-width of the window of values explored around every threshold.
Margin == 1

\* Magnitude of the out-of-domain values explored (hr = 9999, eta = -9999, ...).
Extreme == 9999

Near(t) == (t - Margin)..(t + Margin)

Min(a, b) == IF a <= b THEN a ELSE b

Max(a, b) == IF a >= b THEN a ELSE b

\* Placeholders held by a local that has not been assigned yet: "unset" for a
\* string, 0 for a number.  The position pc tells which locals are assigned; a
\* placeholder is never read.
Unset == "unset"

UnsetRisks ==
    [base |-> 0, spo2 |-> 0, hr |-> 0, det |-> 0, vital |-> 0, transit |-> 0]

\* The outcome of a dictionary subscript with a missing key.
KeyError == "KeyError"

-----------------------------------------------------------------------------
(* 1. Base medical priority.                                               *)

priority_map ==
    [k \in {"cardiac_arrest", "stroke", "severe_accident", "trauma", "minor_injury"} |->
        CASE k = "cardiac_arrest"  -> 5
          [] k = "stroke"          -> 4
          [] k = "severe_accident" -> 4
          [] k = "trauma"          -> 3
          [] k = "minor_injury"    -> 1]

\* Variant: the fallback of the lookup is 0 instead of 2.
base_medical_priority_default0(e) ==
    IF e \in DOMAIN priority_map THEN priority_map[e] ELSE 0

\* priority_map.get(emergency_type, 2)
base_medical_priority(e) ==
    IF e \in DOMAIN priority_map THEN priority_map[e] ELSE 2

-----------------------------------------------------------------------------
(* 2. Vital risk analysis.                                                 *)

spo2_risk(s) ==
    IF s < 85 THEN 3
    ELSE IF s < 90 THEN 2
    ELSE IF s < 94 THEN 1
    ELSE 0

\* Variant: the two tests in the opposite order.
heart_rate_risk_swapped(h) ==
    IF h > 110 THEN 1
    ELSE IF h < 40 \/ h > 130 THEN 2
    ELSE 0

heart_rate_risk(h) ==
    IF h < 40 \/ h > 130 THEN 2
    ELSE IF h > 110 THEN 1
    ELSE 0

\* Variant: the magnitude of the change instead of the signed drop.
deterioration_risk_abs(p, c) ==
    LET d    == p - c
        drop == IF d < 0 THEN 0 - d ELSE d
    IN  IF drop >= 5 THEN 2
        ELSE IF drop >= 2 THEN 1
        ELSE 0

\* Variant: strict comparison at the upper threshold.
deterioration_risk_strict(p, c) ==
    LET drop == p - c
    IN  IF drop > 5 THEN 2
        ELSE IF drop >= 2 THEN 1
        ELSE 0

deterioration_risk(p, c) ==
    LET drop == p - c
    IN  IF drop >= 5 THEN 2
        ELSE IF drop >= 2 THEN 1
        ELSE 0

\* Variant: the sum is returned without the clamp.
vital_risk_score_noclamp(h, s, p) ==
    spo2_risk(s) + heart_rate_risk(h) + deterioration_risk(p, s)

vital_risk_score(h, s, p) ==
    LET risk == spo2_risk(s) + heart_rate_risk(h) + deterioration_risk(p, s)
    IN  Min(risk, 5)

-----------------------------------------------------------------------------
(* 3. Time-to-hospital risk.                                               *)

time_to_hospital_risk(t) ==
    IF t > 15 THEN 2
    ELSE IF t > 8 THEN 1
    ELSE 0

-----------------------------------------------------------------------------
(* 4. Final priority calculation.                                          *)

\* Variant: the sum is returned without the clamp.
calculate_priority_noclamp(e, h, s, p, t) ==
    base_medical_priority(e) + vital_risk_score(h, s, p) + time_to_hospital_risk(t)

calculate_priority(e, h, s, p, t) ==
    LET priority_score ==
            base_medical_priority(e)
            + vital_risk_score(h, s, p)
            + time_to_hospital_risk(t)
    IN  Min(priority_score, 10)

\* What each call made while calculate_priority runs returns.
sub_scores(e, h, s, p, t) ==
    [base    |-> base_medical_priority(e),
     spo2    |-> spo2_risk(s),
     hr      |-> heart_rate_risk(h),
     det     |-> deterioration_risk(p, s),
     vital   |-> vital_risk_score(h, s, p),
     transit |-> time_to_hospital_risk(t)]

-----------------------------------------------------------------------------
(* 5. Priority category mapping.                                           *)

\* Variant: strict comparisons, the lower bound of a band falls in the band below.
priority_category_strict(score) ==
    IF score > 9 THEN "CRITICAL"
    ELSE IF score > 7 THEN "VERY HIGH"
    ELSE IF score > 5 THEN "HIGH"
    ELSE IF score > 3 THEN "MEDIUM"
    ELSE "LOW"

priority_category(score) ==
    IF score >= 9 THEN "CRITICAL"
    ELSE IF score >= 7 THEN "VERY HIGH"
    ELSE IF score >= 5 THEN "HIGH"
    ELSE IF score >= 3 THEN "MEDIUM"
    ELSE "LOW"

-----------------------------------------------------------------------------
(* 6. Traffic signal decision.                                             *)

decisions ==
    [k \in {"CRITICAL", "VERY HIGH", "HIGH", "MEDIUM", "LOW"} |->
        CASE k = "CRITICAL"  -> "Immediate green corridor (override all signals)"
          [] k = "VERY HIGH" -> "Green corridor with maximum preference"
          [] k = "HIGH"      -> "Green at next signal cycle"
          [] k = "MEDIUM"    -> "Partial priority at intersections"
          [] k = "LOW"       -> "Normal traffic flow"]

\* Variant: the table is keyed "VERY_HIGH", so the level "VERY HIGH" is missing.
traffic_decision_misspelt(level) ==
    IF level \in DOMAIN decisions /\ level # "VERY HIGH" THEN decisions[level]
    ELSE IF level = "VERY_HIGH" THEN decisions["VERY HIGH"]
    ELSE KeyError

\* decisions[priority_level]: a missing key raises KeyError.
traffic_decision(level) ==
    IF level \in DOMAIN decisions THEN decisions[level] ELSE KeyError

-----------------------------------------------------------------------------
(* Arguments a caller may pass.  The functions validate nothing, so the    *)
(* sets hold the values on both sides of every threshold and values far    *)
(* outside the medical domain.                                             *)

EmergencyTypes ==
    {"cardiac_arrest", "stroke", "severe_accident", "trauma", "minor_injury",
     "unknown_label", "other"}

HrValues == Near(40) \cup Near(110) \cup Near(130) \cup {0 - Extreme, Extreme}

Spo2Values == Near(85) \cup Near(90) \cup Near(94) \cup {0, Extreme}

\* prev_spo2 is explored as curr_spo2 plus one of these drops.
DropValues == Near(0) \cup Near(2) \cup Near(5) \cup {0 - Extreme}

EtaValues == Near(8) \cup Near(15) \cup {0 - Extreme, 0, Extreme}

ScoreValues == ((0 - Margin)..(10 + Margin)) \cup {0 - Extreme, Extreme}

Categories == {"CRITICAL", "VERY HIGH", "HIGH", "MEDIUM", "LOW"}

LevelValues == Categories \cup {"low", "UNKNOWN"}

\* The four fixed calls: <<emergency_type, hr, spo2, prev_spo2, eta>>.
Scenarios ==
    {<<"cardiac_arrest", 150, 80, 90, 20>>,
     <<"minor_injury", 75, 97, 97, 5>>,
     <<"unknown_label", 115, 92, 92, 10>>,
     <<"stroke", 100, 93, 98, 9>>}

ArgumentTuples ==
    Scenarios \cup
    {<<e, h, s, s + d, t>> :
        e \in EmergencyTypes, h \in HrValues,
        <<s, d>> \in Spo2Values \X DropValues, t \in EtaValues}

-----------------------------------------------------------------------------
(* A caller of the scoring chain.                                          *)

\* The caller is about to call calculate_priority(emergency_type, hr, spo2, prev_spo2, eta).
InitCalculate ==
    /\ entry = "calculate_priority"
    /\ pc = "calculate"
    /\ \E a \in ArgumentTuples :
          /\ emergency_type = a[1]
          /\ hr = a[2]
          /\ spo2 = a[3]
          /\ prev_spo2 = a[4]
          /\ eta = a[5]
    /\ risks = UnsetRisks
    /\ priority = 0
    /\ category = Unset
    /\ action = Unset
    /\ minute = 0

\* The caller is about to call priority_category(priority) with a score of its own.
InitCategorize ==
    /\ entry = "priority_category"
    /\ pc = "categorize"
    /\ emergency_type = Unset
    /\ hr = 0
    /\ spo2 = 0
    /\ prev_spo2 = 0
    /\ eta = 0
    /\ risks = UnsetRisks
    /\ priority \in ScoreValues
    /\ category = Unset
    /\ action = Unset
    /\ minute = 0

\* The caller is about to call traffic_decision(category) with a level of its own.
InitDecide ==
    /\ entry = "traffic_decision"
    /\ pc = "decide"
    /\ emergency_type = Unset
    /\ hr = 0
    /\ spo2 = 0
    /\ prev_spo2 = 0
    /\ eta = 0
    /\ risks = UnsetRisks
    /\ priority = 0
    /\ category \in LevelValues
    /\ action = Unset
    /\ minute = 0

Init == InitCalculate \/ InitCategorize \/ InitDecide

\* priority = calculate_priority(emergency_type, hr, spo2, prev_spo2, eta)
CalculatePriority ==
    /\ pc = "calculate"
    /\ risks' = sub_scores(emergency_type, hr, spo2, prev_spo2, eta)
    /\ priority' = calculate_priority(emergency_type, hr, spo2, prev_spo2, eta)
    /\ pc' = "categorize"
    /\ UNCHANGED <<entry, emergency_type, hr, spo2, prev_spo2, eta, category, action, minute>>

\* category = priority_category(priority)
PriorityCategory ==
    /\ pc = "categorize"
    /\ category' = priority_category(priority)
    /\ pc' = "decide"
    /\ UNCHANGED <<entry, emergency_type, hr, spo2, prev_spo2, eta, risks, priority, action, minute>>

\* action = traffic_decision(category); a KeyError propagates to the caller.
TrafficDecision ==
    /\ pc = "decide"
    /\ LET r == traffic_decision(category)
       IN  IF r = KeyError
           THEN /\ pc' = "raised"
                /\ action' = action
           ELSE /\ pc' = "done"
                /\ action' = r
    /\ UNCHANGED <<entry, emergency_type, hr, spo2, prev_spo2, eta, risks, priority, category, minute>>

Next == CalculatePriority \/ PriorityCategory \/ TrafficDecision

Spec == Init /\ [][Next]_vars

-----------------------------------------------------------------------------
(* 7. Simulated sensor and 8. the simulation loop.                         *)

\* Variant: the reading is capped at 98 but not floored at 80.
generate_fake_vitals_nofloor(p) ==
    {<<h, Min(98, p + d)>> : h \in 80..150, d \in (0 - 4)..2}

\* Every <<heart_rate, spo2>> that generate_fake_vitals(prev_spo2) can return:
\* heart_rate = randint(80, 150), spo2 = max(80, min(98, prev_spo2 + randint(-4, 2))).
generate_fake_vitals(p) ==
    {<<h, Max(80, Min(98, p + d))>> : h \in 80..150, d \in (0 - 4)..2}

\* range(1, 9)
Minutes == 1..8

\* run_simulation has set its locals and enters the first iteration of the loop.
SimInit ==
    /\ entry = "run_simulation"
    /\ pc = "measure"
    /\ emergency_type = "stroke"
    /\ eta = 15
    /\ prev_spo2 = 96
    /\ minute = 1
    /\ hr = 0
    /\ spo2 = 0
    /\ risks = UnsetRisks
    /\ priority = 0
    /\ category = Unset
    /\ action = Unset

\* First half of the loop body: the vitals are generated and the priority,
\* its category and the traffic action are computed from them.
Measure ==
    /\ pc = "measure"
    /\ \E v \in generate_fake_vitals(prev_spo2) :
          /\ hr' = v[1]
          /\ spo2' = v[2]
          /\ risks' = sub_scores(emergency_type, v[1], v[2], prev_spo2, eta)
          /\ priority' = calculate_priority(emergency_type, v[1], v[2], prev_spo2, eta)
    /\ category' = priority_category(priority')
    /\ LET r == traffic_decision(category')
       IN  IF r = KeyError
           THEN /\ pc' = "raised"
                /\ action' = action
           ELSE /\ pc' = "report"
                /\ action' = r
    /\ UNCHANGED <<entry, emergency_type, prev_spo2, eta, minute>>

\* Variant: the ETA is not decremented at the end of the iteration.
Advance_keep_eta ==
    /\ pc = "report"
    /\ prev_spo2' = spo2
    /\ eta' = eta
    /\ IF minute + 1 \in Minutes
       THEN /\ minute' = minute + 1
            /\ pc' = "measure"
       ELSE /\ minute' = minute
            /\ pc' = "done"
    /\ hr' = 0
    /\ spo2' = 0
    /\ risks' = UnsetRisks
    /\ priority' = 0
    /\ category' = Unset
    /\ action' = Unset
    /\ UNCHANGED <<entry, emergency_type>>

\* Second half of the loop body: the iteration is printed, prev_spo2 and eta
\* are updated, and the loop moves to the next minute or ends.  In the code hr,
\* spo2, priority, category and action keep their values until the next
\* iteration rebinds every one of them before reading any; they are dead here
\* and the model forgets them, so that the state between two iterations is
\* <<minute, prev_spo2, eta>> alone.
Advance ==
    /\ pc = "report"
    /\ prev_spo2' = spo2
    /\ eta' = eta - 1
    /\ IF minute + 1 \in Minutes
       THEN /\ minute' = minute + 1
            /\ pc' = "measure"
       ELSE /\ minute' = minute
            /\ pc' = "done"
    /\ hr' = 0
    /\ spo2' = 0
    /\ risks' = UnsetRisks
    /\ priority' = 0
    /\ category' = Unset
    /\ action' = Unset
    /\ UNCHANGED <<entry, emergency_type>>

SimNext == Measure \/ Advance

SimSpec == SimInit /\ [][SimNext]_vars

\* The loop body never blocks for longer than its one second sleep.
SimFairSpec == SimInit /\ [][SimNext]_vars /\ WF_vars(SimNext)

-----------------------------------------------------------------------------
(* Properties of the scoring chain, checked under Spec.                    *)

\* calculate_priority has returned: risks and priority hold its results.
Scored == entry = "calculate_priority" /\ pc # "calculate"

\* priority_category has returned on a score (computed or given by the caller).
Categorized ==
    /\ entry \in {"calculate_priority", "priority_category"}
    /\ pc \in {"decide", "done", "raised"}

\* Severity order of the categories.
Rank ==
    [c \in Categories |->
        CASE c = "LOW"       -> 1
          [] c = "MEDIUM"    -> 2
          [] c = "HIGH"      -> 3
          [] c = "VERY HIGH" -> 4
          [] c = "CRITICAL"  -> 5]

\* The category -> action table of the specification's section 6.
ActionTable ==
    {<<"CRITICAL", "Immediate green corridor (override all signals)">>,
     <<"VERY HIGH", "Green corridor with maximum preference">>,
     <<"HIGH", "Green at next signal cycle">>,
     <<"MEDIUM", "Partial priority at intersections">>,
     <<"LOW", "Normal traffic flow">>}

\* C1: for every emergency type and all integer hr, spo2, prev_spo2 and eta,
\* out-of-domain ones included, calculate_priority returns
\* min(base + vital + transit, 10), and the result is an integer in [0,10].
C1_PriorityIsSaturatingSum ==
    Scored =>
        /\ priority = Min(risks.base + risks.vital + risks.transit, 10)
        /\ priority \in 0..10

\* An extreme call whose raw sum 5 + 5 + 2 = 12 is truncated to 10.
C1_Witness ==
    /\ Scored
    /\ hr = Extreme
    /\ eta = Extreme
    /\ risks.base + risks.vital + risks.transit = 12
    /\ priority = 10

\* C2: vital_risk_score returns min(spo2_risk + heart_rate_risk +
\* deterioration_risk, 5); it is always in [0,5], and when the three sub-risks
\* are maximal together (raw sum 7) it returns exactly 5.
C2_VitalRiskIsClampedSum ==
    Scored =>
        /\ risks.vital = Min(risks.spo2 + risks.hr + risks.det, 5)
        /\ risks.vital \in 0..5
        /\ ((hr < 40 \/ hr > 130) /\ spo2 < 85 /\ prev_spo2 - spo2 >= 5) =>
              /\ risks.spo2 + risks.hr + risks.det = 7
              /\ risks.vital = 5

\* All three sub-risks maximal: raw sum 7, returned 5.
C2_Witness ==
    /\ Scored
    /\ risks.spo2 = 3
    /\ risks.hr = 2
    /\ risks.det = 2
    /\ risks.vital = 5

\* C3: for every score in [0,10] priority_category returns one of the five
\* categories with inclusive lower bounds (>= 9 CRITICAL, >= 7 VERY HIGH,
\* >= 5 HIGH, >= 3 MEDIUM, else LOW), and no lower score in [0,10] gets a more
\* severe category.
C3_CategoryBandsMonotonic ==
    (Categorized /\ priority \in 0..10) =>
        /\ category \in Categories
        /\ (category = "CRITICAL") <=> (priority >= 9)
        /\ (category = "VERY HIGH") <=> (priority >= 7 /\ priority < 9)
        /\ (category = "HIGH") <=> (priority >= 5 /\ priority < 7)
        /\ (category = "MEDIUM") <=> (priority >= 3 /\ priority < 5)
        /\ (category = "LOW") <=> (priority < 3)
        /\ \A a \in 0..10 :
              a <= priority => Rank[priority_category(a)] <= Rank[category]

\* The caller passes the lower bound 7 of a band and gets that band.
C3_Witness ==
    /\ Categorized
    /\ entry = "priority_category"
    /\ priority = 7
    /\ category = "VERY HIGH"

\* C4: traffic_decision maps each of the five categories to its own non-empty
\* string of the literal table, no two categories share a string, and
\* traffic_decision(priority_category(score)) never hits a missing key for
\* any integer score.
C4_DecisionTotalBijective ==
    /\ \A c \in Categories :
          /\ traffic_decision(c) # KeyError
          /\ traffic_decision(c) # ""
          /\ <<c, traffic_decision(c)>> \in ActionTable
    /\ \A c \in Categories : \A d \in Categories :
          c # d => traffic_decision(c) # traffic_decision(d)
    /\ Categorized =>
          /\ pc # "raised"
          /\ pc = "done" => <<category, action>> \in ActionTable

\* An out-of-domain score given by the caller still ends with an action.
C4_Witness ==
    /\ entry = "priority_category"
    /\ pc = "done"
    /\ priority = 0 - Extreme
    /\ action = "Normal traffic flow"

\* C5: deterioration_risk returns 2 when drop >= 5, 1 when 2 <= drop < 5 and 0
\* otherwise, drop = prev_spo2 - curr_spo2; an improvement (prev < curr) gives
\* 0 and the result is never negative.
C5_DeteriorationBands ==
    Scored =>
        LET drop == prev_spo2 - spo2
        IN  /\ drop >= 5 => risks.det = 2
            /\ (drop >= 2 /\ drop < 5) => risks.det = 1
            /\ drop < 2 => risks.det = 0
            /\ prev_spo2 < spo2 => risks.det = 0
            /\ risks.det >= 0

\* An improvement of the saturation was scored 0.
C5_Witness ==
    /\ Scored
    /\ prev_spo2 < spo2
    /\ risks.det = 0

\* The results the specification states for its four scenarios:
\* arguments, sub-scores, score, category, action ("" where none is stated).
ScenarioResults ==
    {[args |-> <<"cardiac_arrest", 150, 80, 90, 20>>,
      risks |-> [base |-> 5, spo2 |-> 3, hr |-> 2, det |-> 2, vital |-> 5, transit |-> 2],
      score |-> 10, category |-> "CRITICAL", action |-> ""],
     [args |-> <<"minor_injury", 75, 97, 97, 5>>,
      risks |-> [base |-> 1, spo2 |-> 0, hr |-> 0, det |-> 0, vital |-> 0, transit |-> 0],
      score |-> 1, category |-> "LOW", action |-> "Normal traffic flow"],
     [args |-> <<"unknown_label", 115, 92, 92, 10>>,
      risks |-> [base |-> 2, spo2 |-> 1, hr |-> 1, det |-> 0, vital |-> 2, transit |-> 1],
      score |-> 5, category |-> "HIGH", action |-> ""],
     [args |-> <<"stroke", 100, 93, 98, 9>>,
      risks |-> [base |-> 4, spo2 |-> 1, hr |-> 0, det |-> 2, vital |-> 3, transit |-> 1],
      score |-> 8, category |-> "VERY HIGH",
      action |-> "Green corridor with maximum preference"]}

\* C6: the chain calculate_priority -> priority_category -> traffic_decision
\* gives, on the four scenarios, the sub-scores, score, category and action
\* the specification states.
C6_Scenarios ==
    \A sc \in ScenarioResults :
        (entry = "calculate_priority"
         /\ <<emergency_type, hr, spo2, prev_spo2, eta>> = sc.args) =>
            /\ pc # "raised"
            /\ pc # "calculate" => (risks = sc.risks /\ priority = sc.score)
            /\ pc \in {"decide", "done"} => category = sc.category
            /\ (pc = "done" /\ sc.action # "") => action = sc.action

\* The stroke scenario ran to its end.
C6_Witness ==
    /\ entry = "calculate_priority"
    /\ pc = "done"
    /\ <<emergency_type, hr, spo2, prev_spo2, eta>> = <<"stroke", 100, 93, 98, 9>>
    /\ priority = 8
    /\ action = "Green corridor with maximum preference"

\* C7: base_medical_priority returns 5 for cardiac_arrest, 4 for stroke, 4 for
\* severe_accident, 3 for trauma, 1 for minor_injury and the default 2 for
\* every other label, without an error; the result is in [1,5].
C7_BaseSeverityTable ==
    Scored =>
        /\ emergency_type = "cardiac_arrest" => risks.base = 5
        /\ emergency_type = "stroke" => risks.base = 4
        /\ emergency_type = "severe_accident" => risks.base = 4
        /\ emergency_type = "trauma" => risks.base = 3
        /\ emergency_type = "minor_injury" => risks.base = 1
        /\ emergency_type \notin
              {"cardiac_arrest", "stroke", "severe_accident", "trauma", "minor_injury"}
              => risks.base = 2
        /\ risks.base \in 1..5

\* A label that is in no table got the default.
C7_Witness ==
    /\ Scored
    /\ emergency_type = "other"
    /\ risks.base = 2

\* C8: heart_rate_risk returns 2 exactly when hr < 40 or hr > 130, 1 exactly
\* when 110 < hr <= 130 and 0 exactly when 40 <= hr <= 110; a value above 130
\* gives 2, never 1.
C8_HeartRateBands ==
    Scored =>
        /\ (risks.hr = 2) <=> (hr < 40 \/ hr > 130)
        /\ (risks.hr = 1) <=> (hr > 110 /\ hr <= 130)
        /\ (risks.hr = 0) <=> (hr >= 40 /\ hr <= 110)
        /\ risks.hr \in 0..2

\* The first value above 130 was scored 2.
C8_Witness ==
    /\ Scored
    /\ hr = 131
    /\ risks.hr = 2

-----------------------------------------------------------------------------
(* Properties of run_simulation, checked under SimSpec and SimFairSpec.    *)

\* C9: in every iteration of run_simulation, whatever the random draws,
\* prev_spo2 and the new spo2 lie in [80,98] and prev_spo2 - spo2 is at most 4,
\* so deterioration_risk contributes at most 1.
C9_SimulationDropAtMost4 ==
    /\ pc \in {"measure", "report"} => prev_spo2 \in 80..98
    /\ pc = "report" =>
          /\ spo2 \in 80..98
          /\ prev_spo2 - spo2 <= 4
          /\ risks.det <= 1

\* The largest drop the generator allows, down to the floor, scored 1.
C9_Witness ==
    /\ pc = "report"
    /\ spo2 = 80
    /\ prev_spo2 - spo2 = 4
    /\ risks.det = 1

\* What holds at every point of the simulation.
SimulationInvariant ==
    /\ pc \in {"measure", "report", "done"}
    /\ minute \in Minutes
    /\ pc \in {"measure", "report"} => (eta = 16 - minute /\ eta >= 8)
    /\ pc = "report" =>
          /\ priority \in 4..10
          /\ category \in Categories \ {"LOW"}
          /\ <<category, action>> \in ActionTable
    /\ pc = "done" => (minute = 8 /\ eta = 7)

\* C10: run_simulation always terminates after exactly 8 iterations, eta
\* taking the values 15 down to 8, one per iteration; in every iteration the
\* priority is in [4,10], the category is never LOW and traffic_decision
\* succeeds.
C10_SimulationTerminates ==
    /\ [](SimulationInvariant)
    /\ <>(pc = "done")

\* The loop has ended after its eighth iteration.
C10_Witness ==
    /\ pc = "done"
    /\ minute = 8
    /\ eta = 7
    /\ prev_spo2 = 80

=============================================================================
